---- MODULE Spec2Model ----
(***************************************************************************)
(* A model of CombinedPostProc.py, the G-code post-processing pipeline.    *)
(*                                                                         *)
(* The Document is the Python list `lines`.  A line of text is a record    *)
(* whose field k names what the line's text is (the only thing the         *)
(* matchers of the program look at), whose field ws is the number of       *)
(* leading blanks, and whose other fields carry the numbers the program    *)
(* parses out of the text.  Indices are the Python (0-based) indices;      *)
(* At(ls, j) reads ls[j].                                                  *)
(*                                                                         *)
(* Floats are fixed-point integers: a temperature is counted in units of   *)
(* 1/Scale degree.                                                         *)
(***************************************************************************)
EXTENDS Integers, Sequences, FiniteSets, TLC

VARIABLES
    lines,              \* the Document (list of lines), mutated in place
    orig,               \* the Document as it was read (never written by the program)
    pc,                 \* position of the program
    status_messages,    \* main(): the status messages collected so far
    i,                  \* replace_m104_after_toolchange: scan index
    n,                  \* replace_m104_after_toolchange: n = len(lines) taken at entry
    toolchange_count,   \* replace_m104_after_toolchange: counters
    inserted_count,
    low_temp_count,
    file,               \* the content of the G-code file on disk (a list of lines)
    input,              \* the content of the file when the run started
    cfg,                \* the ENABLE_* toggles of the configuration
    network,            \* whether the Moonraker host:port accepts a connection
    thread,             \* the connectivity thread: "none", "running", "finished"
    moonraker_connectivity,   \* the global the thread and main() share
    exit_status,        \* -1 while the process runs, then its exit status
    error,              \* which exception main() has caught ("" if none)
    log                 \* history: the calls main() has made, in order

vars == <<lines, orig, pc, status_messages, i, n,
          toolchange_count, inserted_count, low_temp_count,
          file, input, cfg, network, thread, moonraker_connectivity,
          exit_status, error, log>>

tcVars == <<i, n, toolchange_count, inserted_count, low_temp_count>>

\* what only main() and the connectivity thread write
mainVars == <<file, input, cfg, network, thread, moonraker_connectivity,
              exit_status, error, log>>

---------------------------------------------------------------------------
(* Bounds of the model *)

\* number of segments a generated Document is put together from
MaxSegs == 3

---------------------------------------------------------------------------
(* Program constants *)

\* fixed-point unit of the float values: 1 degree = Scale units
Scale == 10000
\* `s_value >= 200`
WaitThreshold == 200
\* `s_value - 2`, `s_value + 2`
WaitBand == 2
\* the precision of the `:g` presentation type (significant digits)
GDigits == 6

---------------------------------------------------------------------------
(* The configuration and the global of the module *)

\* the ENABLE_* toggles as the module sets them (lines 19-24)
DefaultConfig ==
    [heat_soak |-> TRUE, dedup |-> TRUE, spiral |-> TRUE, estimator |-> TRUE,
     brim |-> FALSE, toolchange |-> TRUE]

\* `moonraker_connectivity = {"checked": True, "connected": True, "message": ""}`
InitialConnectivity == [checked |-> TRUE, connected |-> TRUE, message |-> ""]

\* main() has not started: a transform is called on its own on the Document
MainIdle ==
    /\ file = lines
    /\ input = lines
    /\ cfg = DefaultConfig
    /\ network = FALSE
    /\ thread = "none"
    /\ moonraker_connectivity = InitialConnectivity
    /\ exit_status = -1
    /\ error = ""
    /\ log = <<>>

---------------------------------------------------------------------------
(* Lines of text *)

NoS == -1000000000          \* an M104 line without an S<number> word

\* "; CP TOOLCHANGE START", "; CP TOOLCHANGE END"
TCStartLine(w) == [k |-> "tcstart", ws |-> w]
TCEndLine(w)   == [k |-> "tcend", ws |-> w]
\* "T<t>"
ToolLine(t, w) == [k |-> "T", ws |-> w, tool |-> t]
\* "M104 S<s>" (s = NoS: "M104" without S word)
M104Line(s, w) == [k |-> "M104", ws |-> w, s |-> s]
\* any other comment line, any other command line
CommentLine(w) == [k |-> "comment", ws |-> w]
GcodeLine(w)   == [k |-> "gcode", ws |-> w]
\* "TEMPERATURE_WAIT SENSOR=extruder MINIMUM=<mn> MAXIMUM=<mx> ;M104 S<src> wait inserted."
WaitLine(w, mn, mx, src) == [k |-> "wait", ws |-> w, min |-> mn, max |-> mx, src |-> src]

At(ls, j) == ls[j + 1]

\* lines.insert(j, x)
ListInsert_drop(ls, j, x) == SubSeq(ls, 1, j) \o <<x>> \o SubSeq(ls, j + 2, Len(ls))
ListInsert(ls, j, x) ==
    IF j >= Len(ls) THEN Append(ls, x)
    ELSE SubSeq(ls, 1, j) \o <<x>> \o SubSeq(ls, j + 1, Len(ls))

Min2(a, b) == IF a < b THEN a ELSE b
Max2(a, b) == IF a > b THEN a ELSE b

\* stripped.startswith(';')
IsCommentText(l) == l.k \in {"tcstart", "tcend", "comment", "removed", "layer", "filstart",
                             "typebrim", "typeother", "width", "gapsetting",
                             "status", "placeholder", "estimate"}

\* line.lstrip().startswith("; CP TOOLCHANGE START") / ("; CP TOOLCHANGE END")
IsTCStart(l) == l.k = "tcstart"
IsTCEnd(l)   == l.k = "tcend"
\* re.match(r'^T(\d+)\b', stripped, IGNORECASE)
IsToolCmd(l) == l.k = "T"
\* re.match(r'^M104\b', ...) and re.search(r'\bS\s*(-?\d+(?:\.\d+)?)\b', ...)
IsM104WithS(l) == l.k = "M104" /\ l.s # NoS

---------------------------------------------------------------------------
(* f"{x:g}": x presented with 6 significant digits.  The text is modelled  *)
(* by the number it denotes, in units of 1/Scale.                          *)

RECURSIVE Pow10(_)
Pow10(e) == IF e = 0 THEN 1 ELSE 10 * Pow10(e - 1)

\* the weight of the last digit kept when a >= 0 has more than GDigits digits
RECURSIVE Quantum(_)
Quantum(a) == IF a < Pow10(GDigits) THEN 1 ELSE 10 * Quantum(a \div 10)

Abs(x) == IF x < 0 THEN -x ELSE x

\* round a >= 0 to a multiple of q, ties to even
RoundTo(a, q) ==
    LET lo == a \div q
        r  == a % q
    IN  IF 2 * r < q THEN lo * q
        ELSE IF 2 * r > q THEN (lo + 1) * q
        ELSE IF lo % 2 = 0 THEN lo * q ELSE (lo + 1) * q

FormatG(x) ==
    LET a == Abs(x)
        v == RoundTo(a, Quantum(a))
    IN  IF x < 0 THEN -v ELSE v

---------------------------------------------------------------------------
(* replace_m104_after_toolchange *)

\* the inner `while end_idx < n and not ...startswith("; CP TOOLCHANGE END")`
FindEnd_none(ls, e, nn) == e
RECURSIVE FindEnd(_, _, _)
FindEnd(ls, e, nn) ==
    IF e < nn /\ ~IsTCEnd(At(ls, e)) THEN FindEnd(ls, e + 1, nn) ELSE e

\* the last T<number> in range(i + 1, min(end_idx, n)), -1 if none
LastTIndex(ls, ii, end_idx, nn) ==
    LET S == {idx \in (ii + 1)..(Min2(end_idx, nn) - 1) :
                 ~IsCommentText(At(ls, idx)) /\ IsToolCmd(At(ls, idx))}
    IN  IF S = {} THEN -1 ELSE CHOOSE m \in S : \A x \in S : x <= m

\* the last M104 with an S value in range(last_t_index + 1, min(end_idx, n)), -1 if none
LastM104Index(ls, last_t, end_idx, nn) ==
    LET S == {idx \in (last_t + 1)..(Min2(end_idx, nn) - 1) :
                 ~IsCommentText(At(ls, idx)) /\ IsM104WithS(At(ls, idx))}
    IN  IF S = {} THEN -1 ELSE CHOOSE m \in S : \A x \in S : x <= m

\* the inserted line, built from the M104 line l
InsertedLine(l) ==
    WaitLine(l.ws, FormatG(l.s - WaitBand * Scale), FormatG(l.s + WaitBand * Scale), l.s)

\* `i = end_idx + 1 if end_idx < n else n`
NextI(end_idx, nn) == IF end_idx < nn THEN end_idx + 1 ELSE nn

\* lines 545-550
TCEnter ==
    /\ pc = "tc_call"
    /\ i' = 0
    /\ n' = Len(lines)
    /\ toolchange_count' = 0
    /\ inserted_count' = 0
    /\ low_temp_count' = 0
    /\ pc' = "tc_loop"
    /\ UNCHANGED <<lines, orig, status_messages>>
    /\ UNCHANGED mainVars

\* one iteration of `while i < n`, the line is no start marker
TCSkipLine ==
    /\ pc = "tc_loop"
    /\ i < n
    /\ ~IsTCStart(At(lines, i))
    /\ i' = i + 1
    /\ UNCHANGED <<lines, orig, pc, status_messages, n,
                   toolchange_count, inserted_count, low_temp_count>>
    /\ UNCHANGED mainVars

\* one iteration of `while i < n`, the line is a start marker: the whole block
TCBlock ==
    /\ pc = "tc_loop"
    /\ i < n
    /\ IsTCStart(At(lines, i))
    /\ LET end_idx == FindEnd(lines, i + 1, n)
           last_t  == LastTIndex(lines, i, end_idx, n)
           last_m  == IF last_t = -1 THEN -1 ELSE LastM104Index(lines, last_t, end_idx, n)
       IN  /\ toolchange_count' = toolchange_count + 1
           /\ IF last_m # -1
              THEN IF At(lines, last_m).s >= WaitThreshold * Scale
                   THEN /\ lines' = ListInsert(lines, last_m + 1, InsertedLine(At(lines, last_m)))
                        /\ inserted_count' = inserted_count + 1
                        /\ UNCHANGED low_temp_count
                   ELSE /\ low_temp_count' = low_temp_count + 1
                        /\ UNCHANGED <<lines, inserted_count>>
              ELSE UNCHANGED <<lines, inserted_count, low_temp_count>>
           /\ i' = NextI(end_idx, n)
    /\ UNCHANGED <<orig, pc, status_messages, n>>
    /\ UNCHANGED mainVars

\* the messages the function returns, as main() appends them (lines 609-616, 829-832)
SummaryMessage == [t |-> "toolchange_summary", detected |-> toolchange_count,
                   inserted |-> inserted_count]
LowTempWarning == [t |-> "toolchange_low_temp", count |-> low_temp_count]

TCReturn ==
    /\ pc = "tc_loop"
    /\ i >= n
    /\ status_messages' =
          IF low_temp_count > 0
          THEN status_messages \o <<SummaryMessage, LowTempWarning>>
          ELSE Append(status_messages, SummaryMessage)
    /\ pc' = "tc_done"
    /\ UNCHANGED <<lines, orig, tcVars>>
    /\ UNCHANGED mainVars

---------------------------------------------------------------------------
(* Documents the toolchange transform is run on *)

\* S values of the heater-set lines: 190, 200, 215, 200.0004
SValues == {190 * Scale, 200 * Scale, 215 * Scale, 200 * Scale + 4}

TCSegments ==
    {<<TCStartLine(0), ToolLine(1, 0), M104Line(s, 0), TCEndLine(0)>> : s \in SValues}
    \cup
    { <<TCStartLine(2), ToolLine(1, 2), M104Line(215 * Scale, 2), TCEndLine(2)>>,
      <<TCStartLine(0), ToolLine(0, 0), M104Line(190 * Scale, 0), M104Line(215 * Scale, 0),
        TCEndLine(0)>>,
      <<TCStartLine(0), ToolLine(0, 0), M104Line(215 * Scale, 0), ToolLine(1, 0), TCEndLine(0)>>,
      <<TCStartLine(0), ToolLine(0, 0), CommentLine(0), M104Line(NoS, 0), TCEndLine(0)>>,
      <<TCStartLine(0), TCStartLine(0), ToolLine(2, 0), M104Line(215 * Scale, 0)>>,
      <<TCStartLine(0), TCEndLine(0)>>,
      <<GcodeLine(0)>> }

RECURSIVE DocsOf(_, _)
DocsOf(segs, k) ==
    IF k = 0 THEN {<<>>}
    ELSE LET shorter == DocsOf(segs, k - 1)
         IN  shorter \cup {d \o s : d \in shorter, s \in segs}

TCDocs == DocsOf(TCSegments, MaxSegs)

InitTC ==
    /\ lines \in TCDocs
    /\ orig = lines
    /\ pc = "tc_call"
    /\ status_messages = <<>>
    /\ i = 0
    /\ n = 0
    /\ toolchange_count = 0
    /\ inserted_count = 0
    /\ low_temp_count = 0
    /\ MainIdle

NextTC == TCEnter \/ TCSkipLine \/ TCBlock \/ TCReturn

SpecTC == InitTC /\ [][NextTC]_vars

---------------------------------------------------------------------------
(* What the claims about the toolchange transform speak of: the toolchange *)
(* blocks of the Document that was read, and where its lines are now.      *)

\* the index of the end marker closing the block opened at s (Len(doc) if none)
BlockEnd(doc, s) ==
    LET E == {e \in (s + 1)..(Len(doc) - 1) : IsTCEnd(At(doc, e))}
    IN  IF E = {} THEN Len(doc) ELSE CHOOSE e \in E : \A x \in E : e <= x

\* the start markers that open a block, in document order from index j on
RECURSIVE BlockStarts(_, _)
BlockStarts(doc, j) ==
    IF j >= Len(doc) THEN {}
    ELSE IF IsTCStart(At(doc, j))
         THEN {j} \cup BlockStarts(doc, BlockEnd(doc, j) + 1)
         ELSE BlockStarts(doc, j + 1)

\* m is the last heater-set with an S value after the last tool-selection of
\* the block opened at s
IsBlockTarget(doc, s, m) ==
    LET e == BlockEnd(doc, s)
    IN  /\ s < m /\ m < e
        /\ IsM104WithS(At(doc, m))
        /\ \E t \in (s + 1)..(m - 1) : IsToolCmd(At(doc, t))
        /\ \A x \in (m + 1)..(e - 1) : ~IsToolCmd(At(doc, x)) /\ ~IsM104WithS(At(doc, x))

\* the blocks (by start marker) whose target is at or above / below the threshold
HighBlocks(doc) ==
    {s \in BlockStarts(doc, 0) :
        \E m \in 0..(Len(doc) - 1) :
            IsBlockTarget(doc, s, m) /\ At(doc, m).s >= WaitThreshold * Scale}
LowBlocks(doc) ==
    {s \in BlockStarts(doc, 0) :
        \E m \in 0..(Len(doc) - 1) :
            IsBlockTarget(doc, s, m) /\ At(doc, m).s < WaitThreshold * Scale}
TargetOf(doc, s) == CHOOSE m \in 0..(Len(doc) - 1) : IsBlockTarget(doc, s, m)

IsWait(l) == l.k = "wait"

\* the index in ls of line m of the Document that was read (ls holds it with
\* TEMPERATURE_WAIT lines added); Len(ls) for m = Len(orig)
PosOf(ls, m) ==
    IF m >= Cardinality({q \in 0..(Len(ls) - 1) : ~IsWait(At(ls, q))}) THEN Len(ls)
    ELSE CHOOSE p \in 0..(Len(ls) - 1) :
            /\ ~IsWait(At(ls, p))
            /\ Cardinality({q \in 0..(p - 1) : ~IsWait(At(ls, q))}) = m

\* the TEMPERATURE_WAIT lines that ls holds inside the block opened at s
WaitsInBlock(ls, doc, s) ==
    {q \in (PosOf(ls, s) + 1)..(PosOf(ls, BlockEnd(doc, s)) - 1) : IsWait(At(ls, q))}

HasLowTempWarning == \E j \in 1..Len(status_messages) : status_messages[j].t = "toolchange_low_temp"

---------------------------------------------------------------------------
(* Claims about the toolchange transform *)

\* C1: when the transform has returned, every toolchange block of the Document
\* whose last heater-set after its last tool-selection has S >= 200 holds exactly
\* one TEMPERATURE_WAIT line, directly after that heater-set line, wherever the
\* block lies and however many waits were inserted before it.
C1_WaitInEveryHighBlock ==
    pc = "tc_done" =>
        \A s \in HighBlocks(orig) :
            LET p == PosOf(lines, TargetOf(orig, s))
            IN  /\ WaitsInBlock(lines, orig, s) = {p + 1}

\* C2: when the transform has returned, the line directly after the target
\* heater-set line (S = v >= 200) of a block is the inserted wait, it carries
\* MINIMUM = v - 2 and MAXIMUM = v + 2 and has the leading whitespace of the
\* heater-set line.
C2_WaitBandExact ==
    pc = "tc_done" =>
        \A s \in HighBlocks(orig) :
            LET m == TargetOf(orig, s)
                p == PosOf(lines, m)
                v == At(orig, m).s
            IN  /\ p + 1 < Len(lines)
                /\ IsWait(At(lines, p + 1))
                /\ At(lines, p + 1).min = v - WaitBand * Scale
                /\ At(lines, p + 1).max = v + WaitBand * Scale
                /\ At(lines, p + 1).ws = At(orig, m).ws

\* C3: when the transform has returned, no line was inserted into a block whose
\* target heater-set is below 200, the low-temperature counter equals the number
\* of such blocks, and the warning message was emitted iff there is such a block.
C3_LowTempCounted ==
    pc = "tc_done" =>
        /\ \A s \in LowBlocks(orig) : WaitsInBlock(lines, orig, s) = {}
        /\ low_temp_count = Cardinality(LowBlocks(orig))
        /\ HasLowTempWarning <=> LowBlocks(orig) # {}

---------------------------------------------------------------------------
(* remove_duplicate_tool *)

\* a line holding ";LAYER_CHANGE"
LayerLine(w) == [k |-> "layer", ws |-> w]
\* f"; REMOVED <tag>: {original_line}\n", original_line = the line without its
\* trailing whitespace
RemovedLine(tag, l) == [k |-> "removed", ws |-> 0, tag |-> tag, text |-> l]

\* re.match(r'^T([0-5])\s*', line.strip())
IsInitialToolSelection(l) == l.k = "T" /\ l.tool \in 0..5
\* ";LAYER_CHANGE" in line
IsLayerChange(l) == l.k = "layer"
\* line.startswith(initial_tool), initial_tool = "T<t>"
StartsWithTool(l, t) == l.k = "T" /\ l.tool = t

\* the tool whose first occurrence is removed as well
IsSpecialTool_none(t) == FALSE
IsSpecialTool_all(t) == TRUE
IsSpecialTool(t) == t = 4

\* the first index of the forward scan for the second occurrence
ScanFrom_same(initial_tool_index) == initial_tool_index
ScanFrom(initial_tool_index) == initial_tool_index + 1

\* lines 417-422: index of the first tool selection T0-T5, -1 if none
InitialToolIndex(ls) ==
    LET S == {j \in 0..(Len(ls) - 1) : IsInitialToolSelection(At(ls, j))}
    IN  IF S = {} THEN -1 ELSE CHOOSE m \in S : \A x \in S : m <= x

\* the scan loops of lines 439-450 and 466-477: the index of the next line that
\* starts with the tool, -1 when a layer change or the end comes first
RECURSIVE SecondToolIndex_nolayer(_, _, _)
SecondToolIndex_nolayer(ls, j, t) ==
    IF j >= Len(ls) THEN -1
    ELSE IF StartsWithTool(At(ls, j), t) THEN j
    ELSE SecondToolIndex_nolayer(ls, j + 1, t)
RECURSIVE SecondToolIndex(_, _, _)
SecondToolIndex(ls, j, t) ==
    IF j >= Len(ls) THEN -1
    ELSE IF IsLayerChange(At(ls, j)) THEN -1
    ELSE IF StartsWithTool(At(ls, j), t) THEN j
    ELSE SecondToolIndex(ls, j + 1, t)

SetLine_insert(ls, j, l) == ListInsert(ls, j, l)
SetLine(ls, j, l) == [ls EXCEPT ![j + 1] = l]

\* the status message of each outcome
DedupMessage(result, t, first, second) ==
    [t |-> "tool_removal", result |-> result, tool |-> t, first |-> first, second |-> second]

\* the whole function, and main() appending its message (lines 412-488, 815-816)
RemoveDuplicateTool ==
    /\ pc = "dedup_call"
    /\ LET initial_tool_index == InitialToolIndex(lines)
       IN  IF initial_tool_index = -1
           THEN /\ lines' = lines
                /\ status_messages' = Append(status_messages, DedupMessage("no_initial_tool", -1, -1, -1))
           ELSE LET initial_tool == At(lines, initial_tool_index).tool
                IN  IF IsSpecialTool(initial_tool)
                    THEN LET l1 == SetLine(lines, initial_tool_index,
                                       RemovedLine("T4 (FIRST OCCURRENCE)", At(lines, initial_tool_index)))
                             second_tool_index == SecondToolIndex(l1, ScanFrom(initial_tool_index), initial_tool)
                         IN  IF second_tool_index # -1
                             THEN /\ lines' = SetLine(l1, second_tool_index,
                                                 RemovedLine("T4 (SECOND OCCURRENCE)", At(l1, second_tool_index)))
                                  /\ status_messages' = Append(status_messages,
                                        DedupMessage("removed_both", initial_tool,
                                                     initial_tool_index + 1, second_tool_index + 1))
                             ELSE /\ lines' = l1
                                  /\ status_messages' = Append(status_messages,
                                        DedupMessage("removed_first_only", initial_tool,
                                                     initial_tool_index + 1, -1))
                    ELSE LET second_tool_index == SecondToolIndex(lines, ScanFrom(initial_tool_index), initial_tool)
                         IN  IF second_tool_index # -1
                             THEN /\ lines' = SetLine(lines, second_tool_index,
                                                 RemovedLine("DUPLICATE TOOL", At(lines, second_tool_index)))
                                  /\ status_messages' = Append(status_messages,
                                        DedupMessage("removed_duplicate", initial_tool,
                                                     -1, second_tool_index + 1))
                             ELSE /\ lines' = lines
                                  /\ status_messages' = Append(status_messages,
                                        DedupMessage("no_duplicate", initial_tool,
                                                     initial_tool_index + 1, -1))
    /\ pc' = "dedup_done"
    /\ UNCHANGED <<orig, tcVars>>
    /\ UNCHANGED mainVars

---------------------------------------------------------------------------
(* Documents the tool-change deduplication is run on *)

\* length of the generated Documents
MaxDedupLen == 4

DedupAlphabet ==
    { ToolLine(1, 0), ToolLine(4, 0), ToolLine(4, 2), ToolLine(6, 0),
      LayerLine(0), GcodeLine(0) }

RECURSIVE SeqsUpTo(_, _)
SeqsUpTo(A, k) ==
    IF k = 0 THEN {<<>>}
    ELSE LET shorter == SeqsUpTo(A, k - 1)
         IN  shorter \cup {Append(d, a) : d \in shorter, a \in A}

InitDedup ==
    /\ lines \in SeqsUpTo(DedupAlphabet, MaxDedupLen)
    /\ orig = lines
    /\ pc = "dedup_call"
    /\ status_messages = <<>>
    /\ i = 0
    /\ n = 0
    /\ toolchange_count = 0
    /\ inserted_count = 0
    /\ low_temp_count = 0
    /\ MainIdle

NextDedup == RemoveDuplicateTool

SpecDedup == InitDedup /\ [][NextDedup]_vars

---------------------------------------------------------------------------
(* What the claims about tool-change deduplication speak of *)

\* the first tool-selection line T0-T5 of the Document (as a set: empty if none)
FirstTools(doc) ==
    {f \in 0..(Len(doc) - 1) :
        /\ IsInitialToolSelection(At(doc, f))
        /\ \A x \in 0..(f - 1) : ~IsInitialToolSelection(At(doc, x))}

\* the later lines selecting the same tool as line f
Duplicates(doc, f) ==
    {j \in (f + 1)..(Len(doc) - 1) : At(doc, j).k = "T" /\ At(doc, j).tool = At(doc, f).tool}

LeastOf(S) == CHOOSE m \in S : \A x \in S : m <= x

LayerBefore(doc, j) == \E x \in 0..(j - 1) : IsLayerChange(At(doc, x))

IsRemovedOf(l, o) == l.k = "removed" /\ l.text = o

\* the lines that differ from the Document that was read
Changed == {j \in 0..(Len(orig) - 1) : j >= Len(lines) \/ At(lines, j) # At(orig, j)}

\* C4: after the transform, if the initial tool occurs a second time and no
\* layer-change marker precedes that second occurrence, the second occurrence is a
\* comment holding its text; the first occurrence is such a comment too when the
\* tool is T4 and is the unchanged line when the tool is another one.
C4_SpecialToolBothOthersSecond ==
    pc = "dedup_done" =>
        \A f \in FirstTools(orig) :
            Duplicates(orig, f) # {} /\ ~LayerBefore(orig, LeastOf(Duplicates(orig, f))) =>
                LET s == LeastOf(Duplicates(orig, f))
                IN  /\ IsRemovedOf(At(lines, s), At(orig, s))
                    /\ IF At(orig, f).tool = 4
                       THEN IsRemovedOf(At(lines, f), At(orig, f))
                       ELSE At(lines, f) = At(orig, f)

\* a Document with T4 twice before the layer change, after the transform
C4_Witness ==
    /\ pc = "dedup_done"
    /\ \E f \in FirstTools(orig) :
          /\ At(orig, f).tool = 4
          /\ Duplicates(orig, f) # {}
          /\ ~LayerBefore(orig, LeastOf(Duplicates(orig, f)))
          /\ \E x \in 0..(Len(orig) - 1) : IsLayerChange(At(orig, x))
          /\ Changed = {f, LeastOf(Duplicates(orig, f))}

\* no layer-change marker precedes a duplicate tool-selection line
NoLayerBeforeDuplicate(doc) ==
    \A f \in FirstTools(doc) : \A j \in Duplicates(doc, f) : ~LayerBefore(doc, j)

\* C5 as stated: in a Document where no layer-change marker precedes a duplicate,
\* the first duplicate of the initial tool selection is a comment after the
\* transform, and no line has changed when there is no duplicate, whatever the
\* initial tool.
C5_NoOpWithoutDuplicate ==
    pc = "dedup_done" /\ NoLayerBeforeDuplicate(orig) =>
        /\ \A f \in FirstTools(orig) :
              Duplicates(orig, f) # {} =>
                  IsRemovedOf(At(lines, LeastOf(Duplicates(orig, f))),
                              At(orig, LeastOf(Duplicates(orig, f))))
        /\ (\A f \in FirstTools(orig) : Duplicates(orig, f) = {}) => lines = orig

\* C5 amended: as C5, but without a duplicate no line has changed only when the
\* initial tool is not T4; when it is T4, the initial T4 line, and only it, has
\* become a comment holding its text.
C5_NoOpWithoutDuplicateExceptT4 ==
    pc = "dedup_done" /\ NoLayerBeforeDuplicate(orig) =>
        /\ \A f \in FirstTools(orig) :
              Duplicates(orig, f) # {} =>
                  IsRemovedOf(At(lines, LeastOf(Duplicates(orig, f))),
                              At(orig, LeastOf(Duplicates(orig, f))))
        /\ FirstTools(orig) = {} => lines = orig
        /\ \A f \in FirstTools(orig) :
              Duplicates(orig, f) = {} =>
                  IF At(orig, f).tool = 4
                  THEN Changed = {f} /\ IsRemovedOf(At(lines, f), At(orig, f))
                                     /\ Len(lines) = Len(orig)
                  ELSE lines = orig

\* a Document whose only tool selection is one T4 line, after the transform
C5_Witness ==
    /\ pc = "dedup_done"
    /\ NoLayerBeforeDuplicate(orig)
    /\ \E f \in FirstTools(orig) :
          /\ At(orig, f).tool = 4
          /\ Duplicates(orig, f) = {}
          /\ Len(orig) > 1
          /\ Changed = {f}

---------------------------------------------------------------------------
(* remove_filament_swap_spiral *)

\* the three key lines (their exact text behind w leading blanks), and a line
\* whose stripped text is "; filament start gcode"
LiftLine(w)          == [k |-> "lift", ws |-> w]
TravelLine(w)        == [k |-> "travel", ws |-> w]
LowerLine(w)         == [k |-> "lower", ws |-> w]
FilamentStartLine(w) == [k |-> "filstart", ws |-> w]

\* lines[i] == first / second / third: the whole line is the literal
IsFirst(l)  == l.k = "lift" /\ l.ws = 0
IsSecond(l) == l.k = "travel" /\ l.ws = 0
IsThird(l)  == l.k = "lower" /\ l.ws = 0
\* lines[i].strip() == "; filament start gcode"
IsFilamentStart_exact(l) == l.k = "filstart" /\ l.ws = 0
IsFilamentStart(l) == l.k = "filstart"

\* the guard of the second branch of the if/elif chain
SecondWanted_anyorder(first_pos, second_pos) == second_pos = -1
SecondWanted(first_pos, second_pos) == first_pos # -1 /\ second_pos = -1

\* the scan `for i in range(n)` from index j on, with the positions found so far
RECURSIVE SpiralScan(_, _, _, _)
SpiralScan(ls, j, first_pos, second_pos) ==
    IF j >= Len(ls)
    THEN [removed |-> FALSE, reason |-> "not_found",
          first_pos |-> first_pos, second_pos |-> second_pos, third_pos |-> -1]
    ELSE IF IsFilamentStart(At(ls, j))
    THEN [removed |-> FALSE, reason |-> "hit_filament_start",
          first_pos |-> first_pos, second_pos |-> second_pos, third_pos |-> -1]
    ELSE IF first_pos = -1 /\ IsFirst(At(ls, j))
    THEN SpiralScan(ls, j + 1, j, second_pos)
    ELSE IF SecondWanted(first_pos, second_pos) /\ IsSecond(At(ls, j))
    THEN SpiralScan(ls, j + 1, first_pos, j)
    ELSE IF first_pos # -1 /\ second_pos # -1 /\ IsThird(At(ls, j))
    THEN [removed |-> TRUE, reason |-> "",
          first_pos |-> first_pos, second_pos |-> second_pos, third_pos |-> j]
    ELSE SpiralScan(ls, j + 1, first_pos, second_pos)

\* lines 520-522
SpiralRewrite(ls, r) ==
    LET l3 == SetLine(ls, r.third_pos,
                      RemovedLine("FILAMENT SWAP SPIRAL (PART 3/3)", At(ls, r.third_pos)))
        l2 == SetLine(l3, r.second_pos,
                      RemovedLine("FILAMENT SWAP SPIRAL (PART 2/3)", At(l3, r.second_pos)))
    IN  SetLine(l2, r.first_pos,
                RemovedLine("FILAMENT SWAP SPIRAL (PART 1/3)", At(l2, r.first_pos)))

\* lines 529-533
SpiralMessage(r) ==
    IF r.removed
    THEN [t |-> "spiral_removal", result |-> "removed", first |-> r.first_pos + 1,
          second |-> r.second_pos + 1, third |-> r.third_pos + 1]
    ELSE [t |-> "spiral_removal", result |-> r.reason, first |-> -1, second |-> -1,
          third |-> -1]

\* the whole function, and main() appending its message (lines 489-535, 822-823)
SpiralCall(from, to) ==
    /\ pc = from
    /\ LET r == SpiralScan(lines, 0, -1, -1)
       IN  /\ lines' = IF r.removed THEN SpiralRewrite(lines, r) ELSE lines
           /\ status_messages' = Append(status_messages, SpiralMessage(r))
    /\ pc' = to
    /\ UNCHANGED <<orig, tcVars>>
    /\ UNCHANGED mainVars

RemoveFilamentSwapSpiral == SpiralCall("spiral_call", "spiral_done")

\* the program run once more, on the Document it has produced
RemoveFilamentSwapSpiralAgain == SpiralCall("spiral_done", "spiral_done_again")

---------------------------------------------------------------------------
(* Documents the spiral-defect removal is run on *)

\* length of the generated Documents
MaxSpiralLen == 6

\* the indented lift line is a line that matches none of the literals
SpiralAlphabet ==
    { LiftLine(0), TravelLine(0), LowerLine(0), FilamentStartLine(2), LiftLine(2) }

InitSpiral ==
    /\ lines \in SeqsUpTo(SpiralAlphabet, MaxSpiralLen)
    /\ orig = lines
    /\ pc = "spiral_call"
    /\ status_messages = <<>>
    /\ i = 0
    /\ n = 0
    /\ toolchange_count = 0
    /\ inserted_count = 0
    /\ low_temp_count = 0
    /\ MainIdle

NextSpiral == RemoveFilamentSwapSpiral \/ RemoveFilamentSwapSpiralAgain

SpecSpiral == InitSpiral /\ [][NextSpiral]_vars

---------------------------------------------------------------------------
(* What the claims about spiral-defect removal speak of *)

LastMessage(msgs) == msgs[Len(msgs)]

\* the earliest lift, the earliest travel after it, the earliest lower after that
\* (as sets: empty if there is none)
Lifts(doc)   == {a \in 0..(Len(doc) - 1) : IsFirst(At(doc, a))}
Travels(doc) == IF Lifts(doc) = {} THEN {}
                ELSE {b \in (LeastOf(Lifts(doc)) + 1)..(Len(doc) - 1) : IsSecond(At(doc, b))}
Lowers(doc)  == IF Travels(doc) = {} THEN {}
                ELSE {c \in (LeastOf(Travels(doc)) + 1)..(Len(doc) - 1) : IsThird(At(doc, c))}
Markers(doc) == {m \in 0..(Len(doc) - 1) : At(doc, m).k = "filstart"}

\* the three lines occur in order and no marker line lies at or before the third
SequenceBeforeMarker(doc) ==
    /\ Lowers(doc) # {}
    /\ \A m \in Markers(doc) : m > LeastOf(Lowers(doc))

\* C6: a run of the spiral-defect removal on the output of a first run changes
\* no line and reports that nothing was removed.
C6_SpiralIdempotent ==
    [][pc = "spiral_done" =>
          /\ lines' = lines
          /\ LastMessage(status_messages').result # "removed"]_vars

\* C7: after the transform, if the three literal lines occur in order with no
\* marker line at or before the third, the earliest lift, the earliest travel
\* after it and the earliest lower after that are comments PART 1/3, 2/3, 3/3
\* holding their text, and no other line has changed.
C7_SpiralRewritesTheThree ==
    pc = "spiral_done" /\ SequenceBeforeMarker(orig) =>
        LET a == LeastOf(Lifts(orig))
            b == LeastOf(Travels(orig))
            c == LeastOf(Lowers(orig))
        IN  /\ Len(lines) = Len(orig)
            /\ Changed = {a, b, c}
            /\ At(lines, a) = RemovedLine("FILAMENT SWAP SPIRAL (PART 1/3)", At(orig, a))
            /\ At(lines, b) = RemovedLine("FILAMENT SWAP SPIRAL (PART 2/3)", At(orig, b))
            /\ At(lines, c) = RemovedLine("FILAMENT SWAP SPIRAL (PART 3/3)", At(orig, c))

\* the three lines with other lines between them and a marker after the third,
\* after the transform
C7_Witness ==
    /\ pc = "spiral_done"
    /\ SequenceBeforeMarker(orig)
    /\ Markers(orig) # {}
    /\ LeastOf(Travels(orig)) > LeastOf(Lifts(orig)) + 1
    /\ LeastOf(Lowers(orig)) > LeastOf(Travels(orig)) + 1
    /\ Cardinality(Changed) = 3

\* C8: after the transform, if a marker line comes before the three lines were
\* all found in order, the Document is unchanged and the message says the marker
\* was hit; if there is no marker line and the three lines do not occur in order,
\* the Document is unchanged and the message says the sequence was not found.
C8_SpiralAbsentLeavesDocument ==
    pc = "spiral_done" /\ ~SequenceBeforeMarker(orig) =>
        /\ lines = orig
        /\ LastMessage(status_messages).result =
              IF Markers(orig) # {} THEN "hit_filament_start" ELSE "not_found"

\* a marker line after the lift and the travel but before the lower, after the
\* transform
C8_Witness ==
    /\ pc = "spiral_done"
    /\ Lowers(orig) # {}
    /\ \E m \in Markers(orig) :
          LeastOf(Travels(orig)) < m /\ m < LeastOf(Lowers(orig))
    /\ lines = orig
    /\ LastMessage(status_messages).result = "hit_filament_start"

---------------------------------------------------------------------------
(* detect_and_inject_brim_width.  Lengths are counted in units of 1/Scale   *)
(* mm, and computed exactly.                                               *)

\* `len(brim_coords) > 10`
MinBrimPoints == 10
\* `brim_width > 15` (mm)
BrimWarningLimit == 15
\* `lines[search_start:]`, search_start = max(0, len(lines) - 2000)
GapSearchWindow == 2000
\* the tolerance 0.1 of the outside test and the minimum value 0.1, in units of
\* 1/Scale mm
OutsideTolerance == 1000
MinBrimWidth == 1000

NoNumber == -999999999       \* a number the text does not hold or that does not parse

\* "EXCLUDE_OBJECT_DEFINE ... POLYGON=[[x,y],[x,y],...]" (poly = <<>>: no polygon
\* that parses)
ExcludeObjectLine(w, poly) == [k |-> "exclude", ws |-> w, poly |-> poly]
\* ";TYPE:Brim", ";TYPE:<another type>", ";WIDTH:<width>"
TypeBrimLine(w)     == [k |-> "typebrim", ws |-> w]
TypeOtherLine(w)    == [k |-> "typeother", ws |-> w]
WidthLine(w, width) == [k |-> "width", ws |-> w, width |-> width]
\* "G1 X<x> Y<y> ..." (NoNumber: the word is missing)
G1Line(w, x, y)     == [k |-> "g1", ws |-> w, x |-> x, y |-> y]
\* "; brim_object_gap = <gap>"
GapSettingLine(w, gap) == [k |-> "gapsetting", ws |-> w, gap |-> gap]
BlankLine == [k |-> "blank", ws |-> 0]
\* "SET_GCODE_VARIABLE MACRO=_KAMP_Settings VARIABLE=detected_brim_width VALUE=<value>"
SetVarLine(value)   == [k |-> "setvar", ws |-> 0, value |-> value]

RECURSIVE SeqMin(_)
SeqMin(s) == IF Len(s) = 1 THEN s[1] ELSE Min2(s[1], SeqMin(Tail(s)))
RECURSIVE SeqMax(_)
SeqMax(s) == IF Len(s) = 1 THEN s[1] ELSE Max2(s[1], SeqMax(Tail(s)))

\* lines 217-237: the bounds of the first EXCLUDE_OBJECT_DEFINE line whose polygon
\* parses, <<>> if none
RECURSIVE ObjectBounds(_, _)
ObjectBounds(ls, j) ==
    IF j >= Len(ls) THEN <<>>
    ELSE LET l == At(ls, j)
         IN  IF l.k = "exclude" /\ l.ws = 0 /\ l.poly # <<>>
             THEN LET x_coords == [q \in 1..Len(l.poly) |-> l.poly[q][1]]
                      y_coords == [q \in 1..Len(l.poly) |-> l.poly[q][2]]
                  IN  <<SeqMin(x_coords), SeqMax(x_coords), SeqMin(y_coords), SeqMax(y_coords)>>
             ELSE ObjectBounds(ls, j + 1)

\* lines 240-252: the first brim_object_gap of the last 2000 lines, 0.0 if none
RECURSIVE BrimGap(_, _)
BrimGap(ls, j) ==
    IF j >= Len(ls) THEN 0
    ELSE IF At(ls, j).k = "gapsetting" /\ At(ls, j).gap # NoNumber THEN At(ls, j).gap
    ELSE BrimGap(ls, j + 1)

\* lines 255-271: the scan for the brim section from index j on
RECURSIVE BrimSection(_, _, _, _)
BrimSection(ls, j, brim_start, line_width) ==
    IF j >= Len(ls)
    THEN [brim_start |-> brim_start, brim_end |-> -1, line_width |-> line_width]
    ELSE LET l == At(ls, j)
         IN  IF l.k = "typebrim"
             THEN BrimSection(ls, j + 1, j, line_width)
             ELSE IF brim_start # -1 /\ l.k = "width"
             THEN BrimSection(ls, j + 1, brim_start,
                              IF l.width # NoNumber THEN l.width ELSE line_width)
             ELSE IF brim_start # -1 /\ l.k = "typeother"
             THEN [brim_start |-> brim_start, brim_end |-> j, line_width |-> line_width]
             ELSE BrimSection(ls, j + 1, brim_start, line_width)

\* lines 293-294
IsOutside(x, y, b) ==
    \/ x < b[1] - OutsideTolerance \/ x > b[2] + OutsideTolerance
    \/ y < b[3] - OutsideTolerance \/ y > b[4] + OutsideTolerance

\* lines 281-297: the coordinates of the G1 lines of range(brim_start, end_idx)
\* that lie outside the object bounds
BrimCoords(ls, brim_start, end_idx, b) ==
    LET sect == SubSeq(ls, brim_start + 1, end_idx)
        Keep(l) == /\ l.k = "g1" /\ l.x # NoNumber /\ l.y # NoNumber
                   /\ IsOutside(l.x, l.y, b)
        kept == SelectSeq(sect, Keep)
    IN  [q \in 1..Len(kept) |-> <<kept[q].x, kept[q].y>>]

\* `len(brim_coords) > 10`
EnoughPoints_atleast(count) == count >= MinBrimPoints
EnoughPoints(count) == count > MinBrimPoints

\* `half_line_width = line_width / 2`
HalfLineWidth_whole(line_width) == line_width
HalfLineWidth(line_width) == line_width \div 2

\* lines 301-320
TotalDistance(brim_coords, line_width, b) ==
    LET x_coords == [q \in 1..Len(brim_coords) |-> brim_coords[q][1]]
        y_coords == [q \in 1..Len(brim_coords) |-> brim_coords[q][2]]
        half_line_width == HalfLineWidth(line_width)
        true_brim_x_min == SeqMin(x_coords) - half_line_width
        true_brim_x_max == SeqMax(x_coords) + half_line_width
        true_brim_y_min == SeqMin(y_coords) - half_line_width
        true_brim_y_max == SeqMax(y_coords) + half_line_width
        left_total   == b[1] - true_brim_x_min
        right_total  == true_brim_x_max - b[2]
        bottom_total == b[3] - true_brim_y_min
        top_total    == true_brim_y_max - b[4]
    IN  Max2(Max2(left_total, right_total), Max2(bottom_total, top_total))

\* round(x, 2) and f"{x:.2f}": x to two decimals
Round2(x) == IF x < 0 THEN -RoundTo(-x, Scale \div 100) ELSE RoundTo(x, Scale \div 100)

\* lines 213-325: brim_width (NoNumber for None) and what the message is built from
BrimDetection(ls) ==
    LET object_bounds == ObjectBounds(ls, 0)
        brim_gap == BrimGap(ls, Max2(0, Len(ls) - GapSearchWindow))
        sec == BrimSection(ls, 0, -1, NoNumber)
        end_idx == IF sec.brim_end # -1 THEN sec.brim_end ELSE Len(ls)
        found == sec.brim_start # -1 /\ sec.line_width # NoNumber /\ object_bounds # <<>>
        brim_coords == IF found THEN BrimCoords(ls, sec.brim_start, end_idx, object_bounds)
                       ELSE <<>>
    IN  IF found /\ EnoughPoints(Len(brim_coords))
        THEN [brim_width |-> TotalDistance(brim_coords, sec.line_width, object_bounds),
              gap |-> brim_gap, line_width |-> sec.line_width]
        ELSE [brim_width |-> NoNumber, gap |-> brim_gap, line_width |-> sec.line_width]

\* lines 392-398: the first line that is neither blank nor a comment, 0 if none
InjectionPoint_top(ls) == 0
InjectionPoint(ls) ==
    LET S == {j \in 0..(Len(ls) - 1) : At(ls, j).k # "blank" /\ ~IsCommentText(At(ls, j))}
    IN  IF S = {} THEN 0 ELSE CHOOSE m \in S : \A x \in S : m <= x

\* lines 389-410: the injection, and main() appending the message (lines 808-809)
DetectAndInjectBrimWidth ==
    /\ pc = "brim_call"
    /\ LET d == BrimDetection(lines)
       IN  \* below the limit, or the user pressed Accept in show_brim_warning
           /\ IF d.brim_width # NoNumber /\ d.brim_width > 0
              THEN LET injection_point == InjectionPoint(lines)
                       brim_width == Max2(Round2(d.brim_width), MinBrimWidth)
                   IN  /\ lines' = ListInsert(lines, injection_point, SetVarLine(brim_width))
                       /\ status_messages' = Append(status_messages,
                             [t |-> "brim_detection", result |-> "injected",
                              value |-> brim_width, total |-> Round2(d.brim_width),
                              gap |-> d.gap, line_width |-> d.line_width,
                              line |-> injection_point + 1])
              ELSE /\ lines' = lines
                   /\ status_messages' = Append(status_messages,
                             [t |-> "brim_detection", result |-> "none"])
    /\ pc' = "brim_done"
    /\ UNCHANGED <<orig, tcVars>>
    /\ UNCHANGED mainVars

\* lines 328-387: the margin is above the limit and the user pressed Abort or
\* closed the window: show_brim_warning raises
BrimWarningAbort ==
    /\ pc = "brim_call"
    /\ LET d == BrimDetection(lines)
       IN  d.brim_width # NoNumber /\ d.brim_width > BrimWarningLimit * Scale
    /\ pc' = "brim_raised"
    /\ UNCHANGED <<lines, orig, status_messages, tcVars>>
    /\ UNCHANGED mainVars

---------------------------------------------------------------------------
(* Documents the brim inference is run on *)

\* largest number of exterior G1 points of the brim section
MaxBrimPoints == 12

\* one mm, in the fixed-point unit
Mm(x) == x * Scale

\* the object: a square from (0,0) to (100,100)
SquarePolygon == << <<Mm(0), Mm(0)>>, <<Mm(100), Mm(0)>>, <<Mm(100), Mm(100)>>, <<Mm(0), Mm(100)>> >>

\* the margins <<left, right, bottom, top>> of the brim centerline around the object
BrimShapes == { <<Mm(5), Mm(5), Mm(5), Mm(5)>>, <<Mm(5), Mm(7), Mm(3), Mm(4)>>,
                <<Mm(3), Mm(4), Mm(5), Mm(9)>>, <<Mm(16), Mm(16), Mm(16), Mm(16)>> }

\* the q-th exterior point of the brim loop with margins m
BrimPoint(m, q) ==
    LET c == ((q - 1) % 8) + 1
    IN  IF c = 1 THEN <<-m[1], -m[3]>>
        ELSE IF c = 2 THEN <<Mm(100) + m[2], -m[3]>>
        ELSE IF c = 3 THEN <<Mm(100) + m[2], Mm(100) + m[4]>>
        ELSE IF c = 4 THEN <<-m[1], Mm(100) + m[4]>>
        ELSE IF c = 5 THEN <<-m[1], Mm(50)>>
        ELSE IF c = 6 THEN <<Mm(100) + m[2], Mm(50)>>
        ELSE IF c = 7 THEN <<Mm(50), -m[3]>>
        ELSE <<Mm(50), Mm(100) + m[4]>>

\* a G1 line of the brim section that is no exterior point: inside the object,
\* exactly on the tolerance line, without a Y word
InnerLines == { <<>>, <<G1Line(0, Mm(50), Mm(50))>>, <<G1Line(0, -OutsideTolerance, Mm(50))>>,
                <<G1Line(0, -Mm(5), NoNumber)>> }

\* what stands before the first command of the Document
BrimHeaders == { <<>>, <<CommentLine(0)>>, <<BlankLine, CommentLine(0)>> }

BrimDoc(hdr, excl, width, m, k, inner, closed, gap) ==
    hdr
    \o excl
    \o <<GcodeLine(0), TypeBrimLine(0)>>
    \o width
    \o inner
    \o [q \in 1..k |-> G1Line(0, BrimPoint(m, q)[1], BrimPoint(m, q)[2])]
    \o (IF closed THEN <<TypeOtherLine(0), G1Line(0, -Mm(30), -Mm(30))>> ELSE <<>>)
    \o gap

BrimDocs ==
    { BrimDoc(hdr, excl, width, m, k, inner, closed, gap) :
        hdr \in BrimHeaders,
        excl \in { <<ExcludeObjectLine(0, SquarePolygon)>>, <<ExcludeObjectLine(0, <<>>)>>, <<>> },
        width \in { <<WidthLine(0, 4000)>>, <<WidthLine(0, 4460)>>, <<>> },
        m \in BrimShapes,
        k \in 0..MaxBrimPoints,
        inner \in InnerLines,
        closed \in BOOLEAN,
        gap \in { <<>>, <<GapSettingLine(0, Mm(0))>>, <<GapSettingLine(0, Mm(2))>> } }

InitBrim ==
    /\ lines \in BrimDocs
    /\ orig = lines
    /\ pc = "brim_call"
    /\ status_messages = <<>>
    /\ i = 0
    /\ n = 0
    /\ toolchange_count = 0
    /\ inserted_count = 0
    /\ low_temp_count = 0
    /\ MainIdle

NextBrim == DetectAndInjectBrimWidth \/ BrimWarningAbort

SpecBrim == InitBrim /\ [][NextBrim]_vars

---------------------------------------------------------------------------
(* What the claims about brim inference speak of *)

GreatestOf(S) == CHOOSE m \in S : \A x \in S : x <= m

\* the object's boundary polygon, as the set of its points
PolygonPoints(doc) ==
    LET E == {j \in 0..(Len(doc) - 1) :
                 At(doc, j).k = "exclude" /\ At(doc, j).ws = 0 /\ At(doc, j).poly # <<>>}
    IN  IF E = {} THEN {}
        ELSE {At(doc, LeastOf(E)).poly[q] : q \in 1..Len(At(doc, LeastOf(E)).poly)}

\* the brim section: from the ";TYPE:Brim" line to the next section marker of
\* another type, or to the end
BrimStarts(doc) == {j \in 0..(Len(doc) - 1) : At(doc, j).k = "typebrim"}
SectionEnd(doc) ==
    LET E == {j \in (LeastOf(BrimStarts(doc)) + 1)..(Len(doc) - 1) : At(doc, j).k = "typeother"}
    IN  IF E = {} THEN Len(doc) ELSE LeastOf(E)
SectionWidths(doc) ==
    IF BrimStarts(doc) = {} THEN {}
    ELSE {At(doc, j).width : j \in {x \in LeastOf(BrimStarts(doc))..(SectionEnd(doc) - 1) :
                                       At(doc, x).k = "width"}}

\* the object's bounding box
ObjXMin(doc) == LeastOf({p[1] : p \in PolygonPoints(doc)})
ObjXMax(doc) == GreatestOf({p[1] : p \in PolygonPoints(doc)})
ObjYMin(doc) == LeastOf({p[2] : p \in PolygonPoints(doc)})
ObjYMax(doc) == GreatestOf({p[2] : p \in PolygonPoints(doc)})

\* the motion commands of the brim section whose point lies outside the object's
\* bounding box (by more than the tolerance)
ExteriorLines(doc) ==
    IF BrimStarts(doc) = {} \/ PolygonPoints(doc) = {} THEN {}
    ELSE {j \in LeastOf(BrimStarts(doc))..(SectionEnd(doc) - 1) :
             /\ At(doc, j).k = "g1" /\ At(doc, j).x # NoNumber /\ At(doc, j).y # NoNumber
             /\ \/ At(doc, j).x < ObjXMin(doc) - OutsideTolerance
                \/ At(doc, j).x > ObjXMax(doc) + OutsideTolerance
                \/ At(doc, j).y < ObjYMin(doc) - OutsideTolerance
                \/ At(doc, j).y > ObjYMax(doc) + OutsideTolerance}

\* an object boundary and a brim section with a declared width are there
HasBrimData(doc) == PolygonPoints(doc) # {} /\ SectionWidths(doc) # {}

SetVarLines(ls) == {j \in 0..(Len(ls) - 1) : At(ls, j).k = "setvar"}

\* the function has inserted its command / has done nothing
BrimInjected ==
    /\ Len(lines) = Len(orig) + 1
    /\ Cardinality(SetVarLines(lines)) = 1
    /\ LastMessage(status_messages).result = "injected"
BrimNoOp ==
    /\ lines = orig
    /\ LastMessage(status_messages).result = "none"

\* C9 as stated: when the function has returned, it has injected a clearance if
\* at least 10 motion-command points of the brim section lie outside the object's
\* bounding box, and has reported a no-op and inserted nothing if fewer than 10 do.
C9_AtLeastTenPoints ==
    pc = "brim_done" /\ HasBrimData(orig) =>
        IF Cardinality(ExteriorLines(orig)) >= 10 THEN BrimInjected ELSE BrimNoOp

\* C9 amended: when the function has returned, it has injected a clearance if
\* more than 10 such points lie outside, and has reported a no-op and inserted
\* nothing if 10 or fewer do; it raises (the safety gate's abort) only with more
\* than 10 such points.
C9_MoreThanTenPoints ==
    /\ pc = "brim_done" /\ HasBrimData(orig) =>
          IF Cardinality(ExteriorLines(orig)) > 10 THEN BrimInjected ELSE BrimNoOp
    /\ pc = "brim_done" /\ ~HasBrimData(orig) => BrimNoOp
    /\ pc = "brim_raised" =>
          HasBrimData(orig) /\ Cardinality(ExteriorLines(orig)) > 10 /\ lines = orig

\* exactly 10 exterior points: no-op; the function has returned
C9_Witness ==
    /\ pc = "brim_done"
    /\ HasBrimData(orig)
    /\ Cardinality(ExteriorLines(orig)) = 10
    /\ BrimNoOp

\* the four distances from the object's bounding box to the bounding box of the
\* exterior brim points, widened by half the declared line width
HalfWidth(doc)    == GreatestOf({w \in SectionWidths(doc) : TRUE}) \div 2
ExteriorXs(doc)   == {At(doc, j).x : j \in ExteriorLines(doc)}
ExteriorYs(doc)   == {At(doc, j).y : j \in ExteriorLines(doc)}
LeftSide(doc)     == ObjXMin(doc) - (LeastOf(ExteriorXs(doc)) - HalfWidth(doc))
RightSide(doc)    == (GreatestOf(ExteriorXs(doc)) + HalfWidth(doc)) - ObjXMax(doc)
BottomSide(doc)   == ObjYMin(doc) - (LeastOf(ExteriorYs(doc)) - HalfWidth(doc))
TopSide(doc)      == (GreatestOf(ExteriorYs(doc)) + HalfWidth(doc)) - ObjYMax(doc)
Sides(doc)        == {LeftSide(doc), RightSide(doc), BottomSide(doc), TopSide(doc)}

InjectedValue == At(lines, LeastOf(SetVarLines(lines))).value

\* the Document of the example: object box [0,0]-[100,100], width 0.4, exterior
\* points spanning [-5,-5]-[105,105], gap 2.0
IsExample(doc) ==
    /\ HasBrimData(doc)
    /\ <<ObjXMin(doc), ObjXMax(doc), ObjYMin(doc), ObjYMax(doc)>> = <<Mm(0), Mm(100), Mm(0), Mm(100)>>
    /\ SectionWidths(doc) = {4000}
    /\ Cardinality(ExteriorLines(doc)) > 10
    /\ <<LeastOf(ExteriorXs(doc)), GreatestOf(ExteriorXs(doc))>> = <<-Mm(5), Mm(105)>>
    /\ <<LeastOf(ExteriorYs(doc)), GreatestOf(ExteriorYs(doc))>> = <<-Mm(5), Mm(105)>>
    /\ \E j \in 0..(Len(doc) - 1) : At(doc, j) = GapSettingLine(0, Mm(2))

\* C10: when a clearance has been injected, the value is the greatest of the four
\* sides (to the two decimals the command carries), whatever the configured gap;
\* in the example the command carries VALUE=5.2.
C10_ClearanceIsMaxOfSides ==
    pc = "brim_done" /\ SetVarLines(lines) # {} =>
        /\ 2 * Abs(InjectedValue - GreatestOf(Sides(orig))) <= Scale \div 100
        /\ IsExample(orig) => InjectedValue = 52000

\* the example, after the function has returned
C10_Witness ==
    /\ pc = "brim_done"
    /\ IsExample(orig)
    /\ SetVarLines(lines) # {}
    /\ InjectedValue = 52000
---------------------------------------------------------------------------
(* Claims about the injection of the clearance *)

IsBlankOrComment(l) == l.k = "blank" \/ IsCommentText(l)

\* C12: when the function has injected its command (the clearance is at most 15,
\* or the user accepted), the value the command carries is the clearance rounded
\* to two decimals and is not below 0.1, and the command stands at the index of
\* the first line of the Document that is neither blank nor a comment: every
\* line before it is a blank or comment line of the Document, the former first
\* command line directly follows it, and the lines after it are the rest of the
\* Document.
C12_InjectedAtFirstCommand ==
    pc = "brim_done" /\ SetVarLines(lines) # {} =>
        LET p == LeastOf(SetVarLines(lines))
            clearance == GreatestOf(Sides(orig))
        IN  /\ InjectedValue % (Scale \div 100) = 0
            /\ 2 * Abs(InjectedValue - clearance) <= Scale \div 100
            /\ InjectedValue >= MinBrimWidth
            /\ \A j \in 0..(p - 1) : At(lines, j) = At(orig, j) /\ IsBlankOrComment(At(orig, j))
            /\ p < Len(orig)
            /\ ~IsBlankOrComment(At(orig, p))
            /\ \A j \in p..(Len(orig) - 1) : At(lines, j + 1) = At(orig, j)
            /\ Len(lines) = Len(orig) + 1

\* a blank line and a comment stand before the first command and the clearance
\* is 5.2: the command has been
\* inserted between the comment and the command
C12_Witness ==
    /\ pc = "brim_done"
    /\ SetVarLines(lines) = {2}
    /\ At(lines, 0).k = "blank"
    /\ IsCommentText(At(lines, 1))
    /\ At(lines, 3) = At(orig, 2)
    /\ InjectedValue = 52000
---------------------------------------------------------------------------
(* Claims about where the deduplication looks for the initial tool *)

\* C20: when the function has returned and the first tool-selection line T0-T5
\* of the Document stands after a layer-change marker, the message reports that
\* no initial tool selection was found and no line of the Document has changed.
C20_InitialToolBeforeLayerChange ==
    pc = "dedup_done" /\ FirstTools(orig) # {} /\ LayerBefore(orig, LeastOf(FirstTools(orig))) =>
        /\ lines = orig
        /\ LastMessage(status_messages).result = "no_initial_tool"
---------------------------------------------------------------------------
(* Claims about the summary of the toolchange transform *)

\* the summary message among the status messages
SummaryOf(msgs) == msgs[CHOOSE j \in 1..Len(msgs) : msgs[j].t = "toolchange_summary"]

\* C19: when the transform has returned, the 'toolchanges detected' count of its
\* summary message is the number of toolchange blocks of the Document (the start
\* markers that open a block), and the 'wait commands inserted' count is the
\* number of lines the Document has grown by.
C19_SummaryCounts ==
    pc = "tc_done" =>
        /\ SummaryOf(status_messages).detected = Cardinality(BlockStarts(orig, 0))
        /\ SummaryOf(status_messages).inserted = Len(lines) - Len(orig)
---------------------------------------------------------------------------
(* main(): the pipeline over the file, and the connectivity thread          *)
(*                                                                         *)
(* A line record stands for the line with its terminator; the content of   *)
(* the file is the list of its lines.  Every open() of the file can raise  *)
(* (the input ok of the actions that read or write the file); a write that *)
(* raises leaves the file as it was.                                       *)

\* "START_PRINT <parameters>"; soak is the value of its SOAK_TIME parameter
\* (NoNumber: it has none)
StartPrintLine(w, soak) == [k |-> "start_print", ws |-> w, soak |-> soak]
\* a status message as main() appends it: message + "\n"
StatusLine(msg) == [k |-> "status", ws |-> 0, msg |-> msg]
\* "; G-code file cleared due to processing error\n"
ErrorPlaceholder == <<[k |-> "placeholder", ws |-> 0, text |-> "processing error"]>>
\* "; G-code file cleared due to heat soak window being closed without selection\n"
AbortPlaceholder == <<[k |-> "placeholder", ws |-> 0, text |-> "heat soak window closed"]>>
\* a comment line klipper_estimator leaves in the file it post-processes
EstimateLine == [k |-> "estimate", ws |-> 0]

\* every setting of the six toggles
Configs ==
    [heat_soak : BOOLEAN, dedup : BOOLEAN, spiral : BOOLEAN, estimator : BOOLEAN,
     brim : BOOLEAN, toolchange : BOOLEAN]

\* what the prompt returns: 0 ("No Heat Soak") or the number entered (5.0, the default)
SoakTimes == {0, 5 * Scale}

\* "; <transform>: Disabled"
Disabled(t) == [t |-> t, result |-> "disabled"]

\* lines 720-733: every START_PRINT command gets SOAK_TIME=<soak_time>, replacing
\* the value it has
ApplyHeatSoak(f, soak_time) ==
    [j \in 1..Len(f) |-> IF f[j].k = "start_print" THEN [f[j] EXCEPT !.soak = soak_time]
                         ELSE f[j]]

\* lines 867-868: the status messages appended to the lines read
FinalContent_front(ls, msgs) == [j \in 1..Len(msgs) |-> StatusLine(msgs[j])] \o ls
FinalContent(ls, msgs) == ls \o [j \in 1..Len(msgs) |-> StatusLine(msgs[j])]

\* `if not moonraker_connectivity["connected"]: raise`
MayInvoke_always(conn) == TRUE
MayInvoke(conn) == conn.connected

\* what the file holds after klipper_estimator has post-processed it
EstimatorOutputs(f) == {f, Append(f, EstimateLine)}

\* an exception reaches `except Exception as e` of main()
Raise(e) == pc' = "raised" /\ error' = e

envVars == <<input, cfg, network>>

StartConnectivityCheck_always ==
    /\ pc = "main"
    /\ status_messages' = <<>>
    /\ thread' = "running"
    /\ log' = Append(log, "start_connectivity_check")
    /\ pc' = "config_prompt"
    /\ UNCHANGED <<lines, orig, tcVars, file, envVars, moonraker_connectivity,
                   exit_status, error>>

\* lines 781-784, start_connectivity_check (lines 181-188)
StartConnectivityCheck ==
    /\ pc = "main"
    /\ status_messages' = <<>>
    /\ IF cfg.estimator
       THEN thread' = "running" /\ log' = Append(log, "start_connectivity_check")
       ELSE UNCHANGED <<thread, log>>
    /\ pc' = "config_prompt"
    /\ UNCHANGED <<lines, orig, tcVars, file, envVars, moonraker_connectivity,
                   exit_status, error>>

\* the thread: background_connectivity_check (lines 171-179) stores the result of
\* the connection attempt; a daemon thread ends with the process
BackgroundConnectivityCheck ==
    /\ thread = "running"
    /\ exit_status = -1
    /\ moonraker_connectivity' =
          [checked |-> TRUE, connected |-> network,
           message |-> IF network THEN "connected" ELSE "failed to connect"]
    /\ thread' = "finished"
    /\ UNCHANGED <<lines, orig, pc, status_messages, tcVars, file, envVars,
                   exit_status, error, log>>

\* lines 795-796
HeatSoakDisabled ==
    /\ pc = "config_prompt"
    /\ ~cfg.heat_soak
    /\ status_messages' = Append(status_messages, Disabled("heat_soak"))
    /\ pc' = "read"
    /\ UNCHANGED <<lines, orig, tcVars, mainVars>>

ShowHeatSoakGuiClosed_blocking ==
    /\ pc = "config_prompt"
    /\ cfg.heat_soak
    /\ thread # "running"
    /\ \E ok \in BOOLEAN : file' = IF ok THEN AbortPlaceholder ELSE file
    /\ log' = Append(log, "show_heat_soak_gui")
    /\ pc' = "aborted"
    /\ exit_status' = 0
    /\ UNCHANGED <<lines, orig, status_messages, tcVars, envVars, thread,
                   moonraker_connectivity, error>>

\* the window is closed without a selection: show_heat_soak_gui wipes the file
\* (lines 701-711), main() exits (lines 789-791)
ShowHeatSoakGuiClosed ==
    /\ pc = "config_prompt"
    /\ cfg.heat_soak
    /\ \E ok \in BOOLEAN : file' = IF ok THEN AbortPlaceholder ELSE file
    /\ log' = Append(log, "show_heat_soak_gui")
    /\ pc' = "aborted"
    /\ exit_status' = 0
    /\ UNCHANGED <<lines, orig, status_messages, tcVars, envVars, thread,
                   moonraker_connectivity, error>>

\* a soak time is selected (lines 650-655, 713) and apply_heat_soak rewrites the
\* file (lines 715-742, 792-794)
ShowHeatSoakGuiSelected ==
    /\ pc = "config_prompt"
    /\ cfg.heat_soak
    /\ log' = Append(log, "show_heat_soak_gui")
    /\ \E soak_time \in SoakTimes, ok \in BOOLEAN :
          IF ok
          THEN /\ file' = ApplyHeatSoak(file, soak_time)
               /\ status_messages' = Append(status_messages,
                      [t |-> "heat_soak", result |-> "set", value |-> soak_time])
               /\ pc' = "read"
               /\ UNCHANGED error
          ELSE /\ Raise("heat soak configuration error")
               /\ UNCHANGED <<file, status_messages>>
    /\ UNCHANGED <<lines, orig, tcVars, envVars, thread, moonraker_connectivity,
                   exit_status>>

\* lines 798-804
ReadFile ==
    /\ pc = "read"
    /\ \E ok \in BOOLEAN :
          IF ok
          THEN /\ lines' = file
               /\ orig' = file
               /\ pc' = "loaded"
               /\ UNCHANGED error
          ELSE /\ Raise("file not read")
               /\ UNCHANGED <<lines, orig>>
    /\ UNCHANGED <<status_messages, tcVars, file, envVars, thread,
                   moonraker_connectivity, exit_status, log>>

\* one step of main(): the transform is called if it is enabled, else its
\* "Disabled" message is appended
Step(from, enabled, call, name, done, t) ==
    /\ pc = from
    /\ IF enabled
       THEN /\ pc' = call
            /\ log' = Append(log, name)
            /\ UNCHANGED status_messages
       ELSE /\ status_messages' = Append(status_messages, Disabled(t))
            /\ pc' = done
            /\ UNCHANGED log
    /\ UNCHANGED <<lines, orig, tcVars, file, envVars, thread, moonraker_connectivity,
                   exit_status, error>>

\* lines 806-811
BrimStep ==
    Step("loaded", cfg.brim, "brim_call", "detect_and_inject_brim_width",
         "brim_done", "brim_detection")
\* lines 813-818
DedupStep ==
    Step("brim_done", cfg.dedup, "dedup_call", "remove_duplicate_tool",
         "dedup_done", "tool_removal")
\* lines 820-825
SpiralStep ==
    Step("dedup_done", cfg.spiral, "spiral_call", "remove_filament_swap_spiral",
         "spiral_done", "spiral_removal")
\* lines 827-834
ToolchangeStep ==
    Step("spiral_done", cfg.toolchange, "tc_call", "replace_m104_after_toolchange",
         "tc_done", "toolchange_summary")

WriteIntermediate_skip ==
    /\ pc = "tc_done"
    /\ pc' = "wait"
    /\ UNCHANGED <<lines, orig, status_messages, tcVars, mainVars>>

\* lines 836-842
WriteIntermediate ==
    /\ pc = "tc_done"
    /\ \E ok \in BOOLEAN :
          IF ok
          THEN /\ file' = lines
               /\ log' = Append(log, "write")
               /\ pc' = "wait"
               /\ UNCHANGED error
          ELSE /\ Raise("file not written")
               /\ UNCHANGED <<file, log>>
    /\ UNCHANGED <<lines, orig, status_messages, tcVars, envVars, thread,
                   moonraker_connectivity, exit_status>>

\* wait_for_connectivity_check, lines 194-198: nothing to wait for
WaitNotNeeded ==
    /\ pc = "wait"
    /\ ~cfg.estimator \/ thread # "running"
    /\ pc' = "estimate"
    /\ UNCHANGED <<lines, orig, status_messages, tcVars, mainVars>>

\* lines 198-203: the thread is alive, the polling loop is entered
WaitEnter ==
    /\ pc = "wait"
    /\ cfg.estimator
    /\ thread = "running"
    /\ pc' = "waiting"
    /\ log' = Append(log, "wait_for_connectivity_check")
    /\ UNCHANGED <<lines, orig, status_messages, tcVars, file, envVars, thread,
                   moonraker_connectivity, exit_status, error>>

\* lines 202-206: the thread has ended before the cap
WaitThreadEnded ==
    /\ pc = "waiting"
    /\ thread = "finished"
    /\ pc' = "estimate"
    /\ UNCHANGED <<lines, orig, status_messages, tcVars, mainVars>>

\* lines 202-209: MOONRAKER_TIMEOUT seconds have passed and the thread is still
\* alive
WaitCap ==
    /\ pc = "waiting"
    /\ thread = "running"
    /\ moonraker_connectivity' =
          [checked |-> TRUE, connected |-> FALSE, message |-> "timed out"]
    /\ log' = Append(log, "cap")
    /\ pc' = "estimate"
    /\ UNCHANGED <<lines, orig, status_messages, tcVars, file, envVars, thread,
                   exit_status, error>>

\* lines 852-853
EstimatorDisabled ==
    /\ pc = "estimate"
    /\ ~cfg.estimator
    /\ status_messages' = Append(status_messages, Disabled("klipper_estimator"))
    /\ pc' = "reread"
    /\ UNCHANGED <<lines, orig, tcVars, mainVars>>

\* run_klipper_estimator, lines 749-750
EstimatorNotConnected ==
    /\ pc = "estimate"
    /\ cfg.estimator
    /\ ~MayInvoke(moonraker_connectivity)
    /\ Raise("cannot connect to Moonraker")
    /\ UNCHANGED <<lines, orig, status_messages, tcVars, file, envVars, thread,
                   moonraker_connectivity, exit_status, log>>

\* run_klipper_estimator, lines 753-771, and lines 850-851: the tool is run; it
\* exits with zero, with another code, or the executable is not found
RunKlipperEstimator ==
    /\ pc = "estimate"
    /\ cfg.estimator
    /\ MayInvoke(moonraker_connectivity)
    /\ \E outcome \in {"zero", "nonzero", "not found"} :
          IF outcome = "not found"
          THEN /\ Raise("estimator not found")
               /\ UNCHANGED <<file, log, status_messages>>
          ELSE /\ file' \in EstimatorOutputs(file)
               /\ log' = Append(log, "subprocess.run")
               /\ IF outcome = "zero"
                  THEN /\ status_messages' = Append(status_messages,
                              [t |-> "klipper_estimator", result |-> "run"])
                       /\ pc' = "reread"
                       /\ UNCHANGED error
                  ELSE /\ Raise("estimator failed")
                       /\ UNCHANGED status_messages
    /\ UNCHANGED <<lines, orig, tcVars, envVars, thread, moonraker_connectivity,
                   exit_status>>

\* lines 855-861
RereadFile ==
    /\ pc = "reread"
    /\ \E ok \in BOOLEAN :
          IF ok
          THEN /\ lines' = file
               /\ pc' = "final_write"
               /\ UNCHANGED error
          ELSE /\ Raise("file not read")
               /\ UNCHANGED lines
    /\ UNCHANGED <<orig, status_messages, tcVars, file, envVars, thread,
                   moonraker_connectivity, exit_status, log>>

\* lines 863-876, and main() returns
FinalWrite ==
    /\ pc = "final_write"
    /\ lines' = FinalContent(lines, status_messages)
    /\ \E ok \in BOOLEAN :
          IF ok
          THEN /\ file' = lines'
               /\ log' = Append(log, "write")
               /\ pc' = "done"
               /\ exit_status' = 0
               /\ UNCHANGED error
          ELSE /\ Raise("file not written")
               /\ UNCHANGED <<file, log, exit_status>>
    /\ UNCHANGED <<orig, status_messages, tcVars, envVars, thread,
                   moonraker_connectivity>>

\* lines 878-880 and handle_error_and_exit (lines 113-126); the exception of
\* show_brim_warning arrives here as well
HandleErrorAndExit ==
    /\ pc \in {"raised", "brim_raised"}
    /\ error' = IF pc = "brim_raised" THEN "brim width warning aborted" ELSE error
    /\ \E ok \in BOOLEAN : file' = IF ok THEN ErrorPlaceholder ELSE file
    /\ log' = Append(log, "handle_error_and_exit")
    /\ pc' = "failed"
    /\ exit_status' = 0
    /\ UNCHANGED <<lines, orig, status_messages, tcVars, envVars, thread,
                   moonraker_connectivity>>

---------------------------------------------------------------------------
(* The files main() is run on *)

\* a file that holds a header comment and nothing else
HeaderOnly == <<CommentLine(0)>>

\* a file with something for every transform: a START_PRINT command, a tool
\* selected twice before the first layer, the three moves of the spiral, a
\* toolchange block at 215 and one at 190
FullDoc ==
    << CommentLine(0), StartPrintLine(0, NoNumber), ToolLine(1, 0), ToolLine(1, 0),
       LayerLine(0), LiftLine(0), TravelLine(0), LowerLine(0),
       TCStartLine(0), ToolLine(1, 0), M104Line(215 * Scale, 0), TCEndLine(0),
       TCStartLine(0), ToolLine(2, 0), M104Line(190 * Scale, 0), TCEndLine(0) >>

\* a file with a brim whose centerline lies m around the object
BrimFile(m) ==
    BrimDoc(<<BlankLine, CommentLine(0)>>, <<ExcludeObjectLine(0, SquarePolygon)>>,
            <<WidthLine(0, 4000)>>, m, MinBrimPoints + 1, <<>>, TRUE,
            <<GapSettingLine(0, Mm(2))>>)

\* the files: an empty one, the header, the full one, a brim of 5 mm before the
\* commands of the full one, a brim of 16 mm
MainDocs ==
    { <<>>, HeaderOnly, FullDoc,
      BrimFile(<<Mm(5), Mm(5), Mm(5), Mm(5)>>) \o Tail(FullDoc),
      BrimFile(<<Mm(16), Mm(16), Mm(16), Mm(16)>>) }

Init ==
    /\ file \in MainDocs
    /\ input = file
    /\ cfg \in Configs
    /\ network \in BOOLEAN
    /\ thread = "none"
    /\ moonraker_connectivity = InitialConnectivity
    /\ exit_status = -1
    /\ error = ""
    /\ log = <<>>
    /\ lines = <<>>
    /\ orig = <<>>
    /\ pc = "main"
    /\ status_messages = <<>>
    /\ i = 0
    /\ n = 0
    /\ toolchange_count = 0
    /\ inserted_count = 0
    /\ low_temp_count = 0

Next ==
    \/ StartConnectivityCheck
    \/ BackgroundConnectivityCheck
    \/ HeatSoakDisabled
    \/ ShowHeatSoakGuiClosed
    \/ ShowHeatSoakGuiSelected
    \/ ReadFile
    \/ BrimStep
    \/ DetectAndInjectBrimWidth
    \/ BrimWarningAbort
    \/ DedupStep
    \/ RemoveDuplicateTool
    \/ SpiralStep
    \/ RemoveFilamentSwapSpiral
    \/ ToolchangeStep
    \/ TCEnter
    \/ TCSkipLine
    \/ TCBlock
    \/ TCReturn
    \/ WriteIntermediate
    \/ WaitNotNeeded
    \/ WaitEnter
    \/ WaitThreadEnded
    \/ WaitCap
    \/ EstimatorDisabled
    \/ EstimatorNotConnected
    \/ RunKlipperEstimator
    \/ RereadFile
    \/ FinalWrite
    \/ HandleErrorAndExit

Spec == Init /\ [][Next]_vars
---------------------------------------------------------------------------
(* What the claims about the pipeline speak of *)

\* main() has made the call / the thread's cap has been hit
Has(e) == \E j \in 1..Len(log) : log[j] = e

\* the calls of the transforms, and of everything that follows them
TransformCalls ==
    { "detect_and_inject_brim_width", "remove_duplicate_tool",
      "remove_filament_swap_spiral", "replace_m104_after_toolchange" }
LaterCalls ==
    { "remove_duplicate_tool", "remove_filament_swap_spiral",
      "replace_m104_after_toolchange", "write", "wait_for_connectivity_check",
      "subprocess.run" }

\* the exceptions of the file operations
IOErrors == { "heat soak configuration error", "file not read", "file not written" }

AllEnabled ==
    [heat_soak |-> TRUE, dedup |-> TRUE, spiral |-> TRUE, estimator |-> TRUE,
     brim |-> TRUE, toolchange |-> TRUE]

\* the Document holds what the clearance is computed from (more than 10
\* exterior points), and the clearance
DetectsClearance(doc) == HasBrimData(doc) /\ Cardinality(ExteriorLines(doc)) > MinBrimPoints
Clearance(doc) == GreatestOf(Sides(doc))

\* the status messages as lines
StatusLines(msgs) == [j \in 1..Len(msgs) |-> StatusLine(msgs[j])]

MessageOrder ==
    << "heat_soak", "brim_detection", "tool_removal", "spiral_removal",
       "toolchange_summary", "klipper_estimator" >>
MessageOrderWithWarning ==
    << "heat_soak", "brim_detection", "tool_removal", "spiral_removal",
       "toolchange_summary", "toolchange_low_temp", "klipper_estimator" >>
Kinds(msgs) == [j \in 1..Len(msgs) |-> msgs[j].t]

\* C13: when the run is done, the last lines of the file are the status
\* messages, in the order heat soak, brim, tool dedup, spiral, toolchange wait
\* (followed by its low-temperature warning if there is one), estimator: one
\* message for each transform, enabled or not, and no status line stands before
\* them.
C13_StatusMessagesInOrder ==
    pc = "done" =>
        LET k == Len(status_messages)
            body == Len(file) - k
        IN  /\ Kinds(status_messages) \in {MessageOrder, MessageOrderWithWarning}
            /\ body >= 0
            /\ SubSeq(file, body + 1, Len(file)) = StatusLines(status_messages)
            /\ \A j \in 1..body : file[j].k # "status"

\* a run is done with a transform that found nothing (brim), one that found
\* something (tool dedup), a disabled one (spiral) and the low-temperature warning
C13_Witness ==
    /\ pc = "done"
    /\ Kinds(status_messages) = MessageOrderWithWarning
    /\ status_messages[2].result = "none"
    /\ status_messages[3].result = "removed_duplicate"
    /\ status_messages[4].result = "disabled"
    /\ file[Len(file)] = StatusLine([t |-> "klipper_estimator", result |-> "run"])
    /\ file[Len(file) - 6].k = "status"
    /\ file[Len(file) - 7].k # "status"

\* C14: a run that has failed has left the processing-error placeholder as the
\* whole content of the file and has exited with status 0.
C14_FailedMeansWiped ==
    pc = "failed" => file = ErrorPlaceholder /\ exit_status = 0

\* C15: a run the user has aborted by closing the heat-soak prompt has left the
\* abort placeholder as the whole content of the file and has exited with
\* status 0, without a transform, without the estimator and without the error
\* handler.
C15_AbortByDesign ==
    pc = "aborted" =>
        /\ file = AbortPlaceholder
        /\ exit_status = 0
        /\ error = ""
        /\ \A e \in TransformCalls \cup {"subprocess.run", "handle_error_and_exit"} : ~Has(e)

\* C16: once the bounded wait has hit its cap with the thread still running, the
\* estimator is never invoked and the run does not get past the estimation: it
\* fails, with the connectivity error.
C16_CapMeansNotConnected ==
    Has("cap") =>
        /\ ~Has("subprocess.run")
        /\ pc \in {"estimate", "raised", "failed"}
        /\ pc \in {"raised", "failed"} => error = "cannot connect to Moonraker"

\* C17 as stated: a run on the header-only file with every feature enabled and
\* no network, once it has ended (the prompt answered, no file operation
\* failing), is done with the file holding the original content followed by the
\* status lines.
C17_HeaderOnlyEndsDone ==
    /\ input = HeaderOnly /\ cfg = AllEnabled /\ ~network
    /\ pc \in {"done", "failed"} /\ error \notin IOErrors
    => pc = "done" /\ file = input \o StatusLines(status_messages)

\* C17 amended: on the header-only file with no network, a run with every feature
\* enabled is never done and never invokes the estimator: unless a file
\* operation fails, it fails with the connectivity error; a run with every
\* feature but the time estimation enabled fails only by a file operation, and
\* when it is done the file holds the original content followed by the six
\* status lines and nothing else.
C17_HeaderOnlyDoneWithoutEstimator ==
    /\ input = HeaderOnly /\ ~network /\ cfg = AllEnabled =>
          /\ pc # "done"
          /\ ~Has("subprocess.run")
          /\ pc = "failed" => error \in IOErrors \cup {"cannot connect to Moonraker"}
    /\ input = HeaderOnly /\ ~network /\ cfg = [AllEnabled EXCEPT !.estimator = FALSE] =>
          /\ pc = "failed" => error \in IOErrors
          /\ pc = "done" => /\ file = input \o StatusLines(status_messages)
                            /\ Len(status_messages) = 6

\* the run on the header-only file with everything but the estimator is done
C17_Witness ==
    /\ input = HeaderOnly /\ ~network /\ cfg = [AllEnabled EXCEPT !.estimator = FALSE]
    /\ pc = "done"
    /\ Len(file) = 7
    /\ file[1] = CommentLine(0)

\* a line a transform inserts
IsInsertedLine(l) == l.k \in {"wait", "setvar"}

\* ls is doc with lines inserted and lines replaced in place by their comment
RECURSIVE Embeds(_, _)
Embeds(ls, doc) ==
    IF ls = <<>> THEN doc = <<>>
    ELSE IF doc # <<>> /\ (Head(ls) = Head(doc) \/ IsRemovedOf(Head(ls), Head(doc)))
         THEN Embeds(Tail(ls), Tail(doc))
         ELSE IsInsertedLine(Head(ls)) /\ Embeds(Tail(ls), doc)

\* from the Document read to the intermediate write
TransformPhase ==
    { "loaded", "brim_call", "brim_done", "brim_raised", "dedup_call", "dedup_done",
      "spiral_call", "spiral_done", "tc_call", "tc_loop", "tc_done", "wait", "waiting",
      "estimate" }

\* C18: at every point of the pipeline from the read to the intermediate write,
\* the Document is the Document that was read with lines inserted and lines
\* replaced in place by a comment holding their text: without the inserted lines
\* it has the length of the input, and each of its lines is the input's line at
\* that place or its comment; the file written holds that Document.
C18_NoLineDeletedOrReordered ==
    /\ pc \in TransformPhase =>
          /\ Embeds(lines, orig)
          /\ Len(SelectSeq(lines, LAMBDA l : ~IsInsertedLine(l))) = Len(orig)
    /\ pc \in {"wait", "waiting", "estimate"} => file = lines

\* the four transforms have all changed the Document
C18_Witness ==
    /\ pc = "tc_done"
    /\ SetVarLines(lines) # {}
    /\ \E j \in 1..Len(lines) : IsWait(lines[j])
    /\ \E j \in 1..Len(lines) : lines[j].k = "removed" /\ lines[j].tag = "DUPLICATE TOOL"
    /\ \E j \in 1..Len(lines) : lines[j].k = "removed" /\ lines[j].text = LiftLine(0)
    /\ Embeds(lines, orig)
    /\ Len(lines) = Len(orig) + 2
---------------------------------------------------------------------------
(* Claims about the forward scan and the frame of the deduplication *)

\* the initial tool-selection line, the layer-change markers after it and the
\* lines selecting the same tool between it and the first of these markers
InitialLine(doc) == LeastOf(FirstTools(doc))
MarkersAfter(doc, f) == {m \in (f + 1)..(Len(doc) - 1) : At(doc, m).k = "layer"}
ScanEnd(doc, f) == IF MarkersAfter(doc, f) = {} THEN Len(doc) ELSE LeastOf(MarkersAfter(doc, f))
DuplicatesBeforeMarker(doc, f) == {j \in Duplicates(doc, f) : j < ScanEnd(doc, f)}

\* C27: when the function has returned, no line after the first layer-change
\* marker that follows the initial tool-selection has been rewritten, and if the
\* same tool is selected again only after that marker, the status message
\* reports that no duplicate (no second occurrence) was found.
C27_ScanStopsAtLayerChange ==
    pc = "dedup_done" /\ FirstTools(orig) # {} =>
        LET f == InitialLine(orig)
        IN  /\ \A j \in ScanEnd(orig, f)..(Len(orig) - 1) : At(lines, j) = At(orig, j)
            /\ DuplicatesBeforeMarker(orig, f) = {} =>
                  LastMessage(status_messages).result \in {"no_duplicate", "removed_first_only"}

\* T1, the marker, T1 again: the second T1 is left and no duplicate is reported
C27_Witness ==
    /\ pc = "dedup_done"
    /\ orig = <<ToolLine(1, 0), LayerLine(0), ToolLine(1, 0)>>
    /\ lines = orig
    /\ LastMessage(status_messages).result = "no_duplicate"

\* C28: when the function has returned, the Document has the length of the
\* input, and each of its lines is the input's line at the same index or the
\* comment that holds that line's text.
C28_ReplacedInPlace ==
    pc = "dedup_done" =>
        /\ Len(lines) = Len(orig)
        /\ \A j \in 0..(Len(orig) - 1) :
              At(lines, j) = At(orig, j) \/ IsRemovedOf(At(lines, j), At(orig, j))

\* both T4 lines have been replaced by their comments, the line between them is
\* the input's
C28_Witness ==
    /\ pc = "dedup_done"
    /\ orig = <<ToolLine(4, 0), GcodeLine(0), ToolLine(4, 2)>>
    /\ IsRemovedOf(At(lines, 0), At(orig, 0))
    /\ At(lines, 1) = GcodeLine(0)
    /\ IsRemovedOf(At(lines, 2), At(orig, 2))

\* C30: when the function has returned, at most one line has changed if the
\* initial tool is not T4 (the next occurrence before the marker), at most two
\* if it is T4 (the initial line and the next occurrence before the marker);
\* every further occurrence is unchanged.
C30_AtMostOneOrTwoLines ==
    pc = "dedup_done" /\ FirstTools(orig) # {} =>
        LET f == InitialLine(orig)
            D == DuplicatesBeforeMarker(orig, f)
            next == IF D = {} THEN {} ELSE {LeastOf(D)}
        IN  IF At(orig, f).tool = 4
            THEN Changed \subseteq ({f} \cup next) /\ Cardinality(Changed) <= 2
            ELSE Changed \subseteq next /\ Cardinality(Changed) <= 1

\* T4 three times before the marker: the third is left
C30_Witness ==
    /\ pc = "dedup_done"
    /\ orig = <<ToolLine(4, 0), ToolLine(4, 0), ToolLine(4, 0), LayerLine(0)>>
    /\ Changed = {0, 1}
    /\ At(lines, 2) = ToolLine(4, 0)
---------------------------------------------------------------------------
(* replace_m104_after_toolchange called on its own output *)

\* a second call: the Document the first call returned is the argument
ReplaceM104AfterToolchangeAgain ==
    /\ pc = "tc_done"
    /\ log = <<>>
    /\ pc' = "tc_call"
    /\ orig' = lines
    /\ status_messages' = <<>>
    /\ log' = <<"replace_m104_after_toolchange">>
    /\ UNCHANGED <<lines, tcVars>>
    /\ UNCHANGED <<file, input, cfg, network, thread, moonraker_connectivity, exit_status, error>>

NextTCAgain == NextTC \/ ReplaceM104AfterToolchangeAgain

SpecTCAgain == InitTC /\ [][NextTCAgain]_vars

\* the second call has returned
SecondCallReturned == pc = "tc_done" /\ log = <<"replace_m104_after_toolchange">>

\* C25: when the function has returned from a call on its own output, it has
\* inserted no wait line and the Document is the one it was called with.
C25_ToolchangeIdempotent ==
    SecondCallReturned => inserted_count = 0 /\ lines = orig
---------------------------------------------------------------------------
(* Claims about the selection inside a toolchange block *)

\* the blocks with no tool-selection, or with no heater-set carrying an S
\* value after their last tool-selection
SkippedBlocks(doc) ==
    {s \in BlockStarts(doc, 0) : ~\E m \in 0..(Len(doc) - 1) : IsBlockTarget(doc, s, m)}

\* C26: when the transform has returned, a wait line inside a block directly
\* follows the last heater-set with an S value after the block's last
\* tool-selection and carries that S value; a block without such a heater-set
\* holds no wait line, only blocks whose selected heater-set is below 200 have
\* incremented the low-temperature counter, and every block, skipped or not,
\* is counted as a detected toolchange.
C26_LastToolThenLastHeaterSet ==
    pc = "tc_done" =>
        /\ \A s \in BlockStarts(orig, 0) \ SkippedBlocks(orig) :
              LET m == TargetOf(orig, s)
              IN  \A q \in WaitsInBlock(lines, orig, s) :
                      q = PosOf(lines, m) + 1 /\ At(lines, q).src = At(orig, m).s
        /\ \A s \in SkippedBlocks(orig) : WaitsInBlock(lines, orig, s) = {}
        /\ low_temp_count <= Cardinality(LowBlocks(orig))
        /\ toolchange_count = Cardinality(BlockStarts(orig, 0))
---------------------------------------------------------------------------
(* Termination of replace_m104_after_toolchange *)

\* the function is sequential code that runs to its return: a step that can be
\* taken is taken
SpecTCLive == InitTC /\ [][NextTC]_vars /\ WF_vars(NextTC)

\* an iteration of `while i < n`
Iteration == pc = "tc_loop" /\ pc' = "tc_loop"

\* C29: on every Document the function returns; every iteration of its loop
\* moves the scan index forward and counts at most one toolchange, and only at
\* a start marker; the count never exceeds the number of start markers that
\* open a block (a start marker inside an open block is not counted).
C29_Terminates ==
    /\ <>(pc = "tc_done")
    /\ [][Iteration =>
             /\ i' > i
             /\ toolchange_count' \in {toolchange_count, toolchange_count + 1}
             /\ toolchange_count' # toolchange_count => IsTCStart(At(lines, i))]_vars
    /\ [](toolchange_count <= Cardinality(BlockStarts(orig, 0)))

\* returned on a Document whose only block has a nested start marker and no
\* end marker: the block reached the end of the scanned range and counts once
C29_Witness ==
    /\ pc = "tc_done"
    /\ orig = <<TCStartLine(0), TCStartLine(0), ToolLine(2, 0), M104Line(215 * Scale, 0)>>
    /\ i = n
    /\ toolchange_count = 1
---------------------------------------------------------------------------
(* Claims about the time estimation and the connectivity *)

EstimatorErrors == {"estimator failed", "estimator not found"}
HasEstimatorMessage ==
    \E j \in 1..Len(status_messages) :
        status_messages[j] = [t |-> "klipper_estimator", result |-> "run"]
\* the tool was run and has exited with status zero
ZeroExit == Has("subprocess.run") /\ error # "estimator failed"
\* the final write has happened: the second write of the run
FinalWritten == Cardinality({j \in 1..Len(log) : log[j] = "write"}) = 2

\* C21: a non-zero exit of the tool or a missing executable is followed only by
\* the Failed state, with the file holding the placeholder; with the estimator
\* enabled, the 'Successfully run' message is among the status messages, and
\* the final write has happened, only if the tool was run and exited with zero.
C21_EstimatorZeroExitOnly ==
    /\ error \in EstimatorErrors =>
          /\ pc \in {"raised", "failed"}
          /\ ~HasEstimatorMessage /\ ~FinalWritten
          /\ pc = "failed" => file = ErrorPlaceholder /\ exit_status = 0
    /\ HasEstimatorMessage => cfg.estimator /\ ZeroExit
    /\ cfg.estimator /\ (FinalWritten \/ pc \in {"reread", "final_write", "done"}) =>
          ZeroExit /\ HasEstimatorMessage

\* the probe has reported that the endpoint is not reachable
ProbeNotConnected == thread = "finished" /\ ~moonraker_connectivity.connected

\* C22: with the estimator enabled, once the probe has reported not connected
\* the tool has not been and is never invoked and the run does not get past the
\* estimation (it ends failed, or aborted at the prompt); with the estimator
\* disabled no thread is started, the wait is not entered, the global is never
\* written and no run fails with the connectivity error.
C22_ConnectivityFatalOnlyWithEstimator ==
    /\ cfg.estimator /\ ProbeNotConnected =>
          /\ ~Has("subprocess.run")
          /\ pc \notin {"reread", "final_write", "done"}
    /\ ~cfg.estimator =>
          /\ thread = "none"
          /\ ~Has("start_connectivity_check")
          /\ ~Has("wait_for_connectivity_check") /\ ~Has("cap")
          /\ moonraker_connectivity = InitialConnectivity
          /\ error # "cannot connect to Moonraker"

\* the probe reported not connected before the wait, and the run has failed at
\* the estimation without the tool
C22_Witness ==
    /\ pc = "failed"
    /\ cfg.estimator
    /\ ProbeNotConnected
    /\ ~Has("wait_for_connectivity_check")
    /\ error = "cannot connect to Moonraker"
    /\ ~Has("subprocess.run")

---------------------------------------------------------------------------
(* Claims about the order of the writes *)

\* the places in the log of the calls of e
Places(e) == {j \in 1..Len(log) : log[j] = e}
HasStatusLine(f) == \E j \in 1..Len(f) : f[j].k = "status"

\* C23: between the write that follows the transforms and the estimation the
\* file holds the Document, without a status line; no status line is in the
\* file before the final write; in a run that is done the file was written
\* twice, the first time after every call of a transform and before the tool
\* is run, the second time after it, and it holds the content that was re-read
\* followed by the status lines.
C23_PersistenceOrdering ==
    /\ pc \in {"wait", "waiting", "estimate"} =>
          /\ Cardinality(Places("write")) = 1
          /\ file = lines
          /\ ~Has("subprocess.run")
    /\ ~FinalWritten => ~HasStatusLine(file)
    /\ pc = "done" =>
          /\ Cardinality(Places("write")) = 2
          /\ \A w \in Places("write"), r \in Places("subprocess.run") :
                (w < r) <=> (w = LeastOf(Places("write")))
          /\ \A c \in TransformCalls : \A j \in Places(c) : j < LeastOf(Places("write"))
          /\ file = lines
          /\ SubSeq(file, Len(file) - Len(status_messages) + 1, Len(file))
                = StatusLines(status_messages)

\* a run is done, the estimator has added its line to the file between the two
\* writes, and the status lines follow it
C23_Witness ==
    /\ pc = "done"
    /\ log = <<"start_connectivity_check", "write", "subprocess.run", "write">>
    /\ Len(file) = Len(input) + 1 + Len(status_messages)
    /\ file[Len(input) + 1] = EstimateLine
    /\ file[Len(file)].k = "status"

---------------------------------------------------------------------------
(* Claims about main() and the thread *)

\* a step of main() outside the transforms
MainStep ==
    \/ StartConnectivityCheck \/ HeatSoakDisabled \/ ShowHeatSoakGuiClosed
    \/ ShowHeatSoakGuiSelected \/ ReadFile \/ BrimStep \/ DedupStep \/ SpiralStep
    \/ ToolchangeStep \/ WriteIntermediate \/ WaitNotNeeded \/ WaitEnter
    \/ WaitThreadEnded \/ WaitCap \/ EstimatorDisabled \/ EstimatorNotConnected
    \/ RunKlipperEstimator \/ RereadFile \/ FinalWrite \/ HandleErrorAndExit
\* main() is inside a transform
InTransform ==
    pc \in {"brim_call", "dedup_call", "spiral_call", "tc_call", "tc_loop"}
Ended == pc \in {"done", "failed", "aborted"}

\* C24: while the prompt is open the thread has been started (if the
\* estimator is enabled) and, whatever the thread's state, the prompt can be
\* closed and a soak time can be selected; outside the transforms main() can
\* take a step in every state in which the run has not ended, and it is in the
\* wait for the thread only after the intermediate write and before the tool
\* is run.
C24_PromptDoesNotBlock ==
    /\ pc = "config_prompt" =>
          /\ cfg.estimator => Has("start_connectivity_check") /\ thread \in {"running", "finished"}
          /\ cfg.heat_soak => ENABLED ShowHeatSoakGuiClosed /\ ENABLED ShowHeatSoakGuiSelected
          /\ ~cfg.heat_soak => ENABLED HeatSoakDisabled
    /\ ~Ended /\ ~InTransform => ENABLED MainStep
    /\ Has("wait_for_connectivity_check") =>
          LeastOf(Places("write")) < LeastOf(Places("wait_for_connectivity_check"))
    /\ pc = "waiting" => cfg.estimator /\ Has("wait_for_connectivity_check") /\ ~Has("subprocess.run")

\* the prompt has been answered and the file read while the thread still runs
C24_Witness ==
    /\ pc = "loaded"
    /\ Has("show_heat_soak_gui")
    /\ thread = "running"
    /\ moonraker_connectivity = InitialConnectivity

====
